---- MODULE Spec2Model ----
(***************************************************************************)
(* Suppression-comment resolution of Fixit (fixit.common): the line        *)
(* mapping, the comment scan, IgnoreInfo.compute / should_ignore_report,   *)
(* the unused-comment audit, and the pickling guard of the lint reports.   *)
(*                                                                         *)
(* report.py is modelled from its code.  line_mapping.py, comments.py and  *)
(* ignores.py are exercised by tests/test_ignores.py; what the tests pin   *)
(* is modelled from the tests, the rest from the specification.            *)
(***************************************************************************)
EXTENDS Integers, Sequences, FiniteSets, TLC

\* ------------------------------------------------------------------ bounds
\* Longest source file, in physical lines (the end marker sits one below).
MaxLines == 3
\* Most reports resolved against one index.
MaxReports == 2

\* Rule codes a report or a comment may name.
Codes == {"A", "B"}

\* ------------------------------------------------------ source text (input)
\* The text of a comment: "# <directive>[: <codes>[: <rest>]]".  rest is the
\* text after the second colon (empty: there is none); it may spell a code.
Text(d, c, r) == [directive |-> d, codes |-> c, rest |-> r]

NoText == Text("none", <<>>, <<>>)

NoqaTexts ==
    { Text("noqa", <<>>, <<>>), Text("noqa", <<"A">>, <<>>),
      Text("noqa", <<"B">>, <<"A">>), Text("noqa", <<"B", "A">>, <<>>) }

NoqaFileTexts ==
    { Text("noqa-file", <<>>, <<>>), Text("noqa-file", <<"A">>, <<>>),
      Text("noqa-file", <<"A">>, <<"reason">>) }

LintTexts ==
    { Text("lint-ignore", <<"A">>, <<"reason">>), Text("lint-ignore", <<"A">>, <<>>),
      Text("lint-fixme", <<"A">>, <<"reason">>), Text("lint", <<>>, <<"reason">>) }

\* One physical line: what it holds, its trailing comment, and how it ends:
\* "nl" (the line ends here), "backslash" (explicit continuation), "bracket" (a
\* bracket is still open), "string" (a triple-quoted string is still open).
Line(b, t, j) == [body |-> b, trail |-> t, join |-> j]

PhysicalLines ==
    { Line("blank", NoText, "nl") }
    \cup { Line("comment", t, "nl") :
             t \in { Text("noqa", <<>>, <<>>) } \cup NoqaFileTexts \cup LintTexts }
    \cup { Line("code", t, "nl") :
             t \in { NoText, Text("noqa-file", <<"A">>, <<"reason">>) } \cup NoqaTexts }
    \cup { Line("code", t, "bracket") : t \in { NoText, Text("noqa", <<"A">>, <<>>) } }
    \cup { Line("code", NoText, "backslash"), Line("code", NoText, "string"),
           Line("strmid", NoText, "string") }

\* The inside of a string is entered only from a line that leaves one open, and
\* a backslash or an open string is followed by code (or more of the string).
WellFormed(src) ==
    \A i \in 1..Len(src) :
       LET prev == IF i = 1 THEN "nl" ELSE src[i - 1].join IN
       /\ (src[i].body = "strmid") => (prev = "string")
       /\ (prev \in {"string", "backslash"}) => (src[i].body \in {"code", "strmid"})

RECURSIVE SeqsUpTo(_, _)
SeqsUpTo(S, n) ==
    IF n = 0 THEN { <<>> }
    ELSE LET shorter == SeqsUpTo(S, n - 1) IN
         shorter \cup { Append(s, x) : s \in { t \in shorter : Len(t) = n - 1 }, x \in S }

RECURSIVE BracketOpenAt(_, _)
\* Whether a bracket is open at the end of line i.
BracketOpenAt(src, i) ==
    IF i = 0 THEN FALSE
    ELSE IF src[i].body = "code" /\ src[i].join = "bracket" THEN TRUE
    ELSE IF src[i].body = "code" /\ src[i].join = "nl" THEN FALSE
    ELSE BracketOpenAt(src, i - 1)

\* A file the tokenizer reads to its end marker.
Terminated(src) ==
    /\ src[Len(src)].join = "nl"
    /\ ~BracketOpenAt(src, Len(src))

AllSources == { s \in SeqsUpTo(PhysicalLines, MaxLines) : Len(s) >= 1 /\ WellFormed(s) }

Sources == { s \in AllSources : Terminated(s) }

\* --------------------------------------------------------------- tokenizer
Tok(ty, s, e, str) == [type |-> ty, start |-> s, end |-> e, string |-> str]

\* The tokens of one physical line; open is the line the open string began on
\* (0: none).
LineTokens(ln, i, open) ==
    LET code  == IF open # 0 THEN << Tok("STRING", open, i, NoText), Tok("OP", i, i, NoText) >>
                 ELSE << Tok("NAME", i, i, NoText) >>
        trail == IF ln.trail = NoText THEN <<>> ELSE << Tok("COMMENT", i, i, ln.trail) >>
    IN CASE ln.body = "blank"   -> << Tok("NL", i, i, NoText) >>
         [] ln.body = "comment" -> << Tok("COMMENT", i, i, ln.trail), Tok("NL", i, i, NoText) >>
         [] ln.body = "strmid"  -> <<>>
         [] ln.body = "code"    ->
               CASE ln.join = "nl"        -> code \o trail \o << Tok("NEWLINE", i, i, NoText) >>
                 [] ln.join = "bracket"   -> code \o trail \o << Tok("NL", i, i, NoText) >>
                 [] ln.join = "backslash" -> code
                 [] ln.join = "string"    -> code

RECURSIVE TokLoop(_, _, _, _)
TokLoop(src, i, open, acc) ==
    IF i > Len(src)
    THEN IF Terminated(src) THEN Append(acc, Tok("ENDMARKER", i, i, NoText))
         ELSE IF open # 0 THEN Append(acc, Tok("ERRORTOKEN", open, Len(src), NoText))
         ELSE acc
    ELSE LET ln == src[i]
             open2 == IF ln.join = "string" THEN (IF ln.body = "strmid" THEN open ELSE i) ELSE 0
         IN TokLoop(src, i + 1, open2, acc \o LineTokens(ln, i, open))

\* tokenize.tokenize over the source, line numbers only.  An unterminated
\* string comes out as one error token running to the last line, and the
\* stream then has no end marker.
Tokenize(src) == TokLoop(src, 1, 0, <<>>)

\* tokens[-1].end[0]: the last physical line the stream speaks of.
LastLine(toks) == IF Len(toks) = 0 THEN 0 ELSE toks[Len(toks)].end

\* ------------------------------------------------------------ line mapping
\* The mapper's working state: physical_to_logical (over 1..last), the logical
\* line being collected (cur, 0: none), the logical lines waiting for the next
\* non-empty one (pending), next_non_empty_logical_line, and how it ended.
LineMappingStart ==
    [physical_to_logical |-> <<>>, next_non_empty_logical_line |-> <<>>,
     cur |-> 0, last |-> 0, pending |-> {}, status |-> "running"]

\* Which tokens close a logical line.
ClosesLine(tok) == tok.type \in {"NEWLINE", "NL"}

\* A mapper that maps only the first and last line of each token.
MappedByToken_EndsOnly(last, tok) == {tok.start, tok.end}

\* The physical lines one token adds to the mapping: every line since the last
\* one mapped, through the token's last line.
MappedByToken(last, tok) == (last + 1)..tok.end

LineMappingStep(m, tok) ==
    LET cur      == IF m.cur = 0 THEN tok.start ELSE m.cur
        added    == MappedByToken(m.last, tok)
        newlast  == IF tok.end > m.last THEN tok.end ELSE m.last
        ptl      == [l \in (DOMAIN m.physical_to_logical) \cup added |->
                       IF l \in added THEN cur ELSE m.physical_to_logical[l]]
        nonempty == tok.type \notin {"COMMENT", "NL", "NEWLINE"}
        nnel     == IF nonempty
                    THEN [l \in (DOMAIN m.next_non_empty_logical_line) \cup m.pending |->
                            IF l \in m.pending THEN cur
                            ELSE m.next_non_empty_logical_line[l]]
                    ELSE m.next_non_empty_logical_line
        pend     == IF nonempty THEN {} ELSE m.pending
    IN [physical_to_logical |-> ptl,
        next_non_empty_logical_line |-> nnel,
        cur     |-> IF ClosesLine(tok) THEN 0 ELSE cur,
        last    |-> newlast,
        pending |-> IF ClosesLine(tok) THEN pend \cup {cur} ELSE pend,
        status  |-> "running"]

\* End of the stream: a logical line still open (no newline closed it) is kept
\* as the trailing logical line.
LineMappingFinish(m) == [m EXCEPT !.cur = 0, !.status = "done"]

RECURSIVE LineMappingFold(_, _, _)
LineMappingFold(m, toks, i) ==
    IF i > Len(toks) THEN LineMappingFinish(m)
    ELSE LineMappingFold(LineMappingStep(m, toks[i]), toks, i + 1)

\* LineMappingInfo.compute(tokens=tokens)
LineMappingInfo_compute(toks) == LineMappingFold(LineMappingStart, toks, 1)

\* LineMappingInfo.get_next_non_empty_logical_line(physical_line); 0: None.
get_next_non_empty_logical_line(lm, line) ==
    IF line \notin DOMAIN lm.physical_to_logical THEN 0
    ELSE LET ll == lm.physical_to_logical[line] IN
         IF ll \in DOMAIN lm.next_non_empty_logical_line
         THEN lm.next_non_empty_logical_line[ll] ELSE 0

\* ------------------------------------------------------------ comment scan
RECURSIVE CommentScan(_, _, _)
\* The comment tokens of the stream, in order; with own, only those that
\* follow a newline token (or nothing): the comments on a line of their own.
CommentScan(toks, i, own) ==
    IF i > Len(toks) THEN <<>>
    ELSE LET first == (i = 1) \/ toks[i - 1].type \in {"NL", "NEWLINE"}
             keep  == toks[i].type = "COMMENT" /\ (own => first)
         IN (IF keep THEN << toks[i] >> ELSE <<>>) \o CommentScan(toks, i + 1, own)

\* CommentInfo.compute(tokens=tokens)
CommentInfo_compute(toks) ==
    [comments |-> CommentScan(toks, 1, FALSE),
     comments_on_own_line |-> CommentScan(toks, 1, TRUE)]

\* ------------------------------------------------------- directive patterns
\* "# noqa", "# noqa: <codes>", "# noqa: <codes>: <message>"; never "# noqa-file".
NOQA_INLINE_match(text) == text.directive = "noqa"

\* A pattern that takes a noqa-file with codes and no reason.
NOQA_FILE_match_NoReason(text) == text.directive = "noqa-file" /\ text.codes # <<>>

\* "# noqa-file: <codes>: <reason>", both parts present.
NOQA_FILE_match(text) ==
    text.directive = "noqa-file" /\ text.codes # <<>> /\ text.rest # <<>>

\* A pattern that takes a lint-ignore / lint-fixme only with a reason.
LINT_IGNORE_match_NeedsReason(text) ==
    text.directive \in {"lint-ignore", "lint-fixme"} /\ text.codes # <<>> /\ text.rest # <<>>

\* "# lint-ignore: <codes>[: <reason>]" and "# lint-fixme: ..."; the codes are
\* needed, the reason is not.
LINT_IGNORE_match(text) ==
    text.directive \in {"lint-ignore", "lint-fixme"} /\ text.codes # <<>>

\* "# lint: <more of the reason>"
LINT_CONTINUATION_match(text) == text.directive = "lint"

\* The codes a matched comment lists: the comma-separated group, nothing of
\* what follows the second colon.
ParsedCodes(text) == { text.codes[i] : i \in DOMAIN text.codes }

\* ---------------------------------------------------------------- IgnoreInfo
\* A SuppressionComment: its kind, its codes (all: a bare noqa, codes None), the
\* physical lines of its tokens, and the reports it silenced.
SuppressionComment(kind, all, codes, lines) ==
    [kind |-> kind, all |-> all, codes |-> codes, lines |-> lines, used_by |-> {}]

RECURSIVE ContinuationCount(_, _, _)
\* How many "# lint:" comments follow own[k] before line end_line.
ContinuationCount(own, k, end_line) ==
    IF k + 1 <= Len(own)
       /\ LINT_CONTINUATION_match(own[k + 1].string)
       /\ own[k + 1].start < end_line
    THEN 1 + ContinuationCount(own, k + 1, end_line)
    ELSE 0

\* Registering a lint comment under the next non-empty logical line alone.
LintKeys_NextLineOnly(start_line, end_line) == {end_line}

\* The keys a lint-ignore / lint-fixme comment is registered under: from the
\* comment's first line through the next non-empty logical line.
LintKeys(start_line, end_line) == start_line..end_line

\* Registering a noqa under the physical line it sits on.
NoqaKey_PhysicalLine(lm, tok) == tok.start

\* The key a noqa comment is registered under: the logical line it sits on.
NoqaKey(lm, tok) == lm.physical_to_logical[tok.start]

\* Appending comment number n to the lists of the given keys.
Register(by_line, keys, n) ==
    [l \in DOMAIN by_line |-> IF l \in keys THEN Append(by_line[l], n) ELSE by_line[l]]

RECURSIVE LintPass(_, _, _, _)
\* The first loop of IgnoreInfo.compute, over the comments on their own line.
LintPass(own, k, lm, acc) ==
    IF k > Len(own) THEN acc
    ELSE IF ~LINT_IGNORE_match(own[k].string) THEN LintPass(own, k + 1, lm, acc)
    ELSE LET start_line == own[k].start
             end_line   == get_next_non_empty_logical_line(lm, start_line)
             more       == ContinuationCount(own, k, end_line)
             c == SuppressionComment(own[k].string.directive, FALSE,
                                     ParsedCodes(own[k].string),
                                     { own[j].start : j \in k..(k + more) })
             n == Len(acc.suppression_comments) + 1
         IN LintPass(own, k + 1 + more, lm,
                [suppression_comments |-> Append(acc.suppression_comments, c),
                 by_line |-> Register(acc.by_line, LintKeys(start_line, end_line), n)])

RECURSIVE NoqaPass(_, _, _, _)
\* The second loop, over every comment: the legacy inline noqa.
NoqaPass(all, k, lm, acc) ==
    IF k > Len(all) THEN acc
    ELSE IF ~NOQA_INLINE_match(all[k].string) THEN NoqaPass(all, k + 1, lm, acc)
    ELSE LET c == SuppressionComment("noqa", all[k].string.codes = <<>>,
                                     ParsedCodes(all[k].string), { all[k].start })
             n == Len(acc.suppression_comments) + 1
         IN NoqaPass(all, k + 1, lm,
                [suppression_comments |-> Append(acc.suppression_comments, c),
                 by_line |-> Register(acc.by_line, { NoqaKey(lm, all[k]) }, n)])

\* The third loop: the codes of the complete noqa-file comments.
GlobalIgnoreInfo(all) ==
    UNION { ParsedCodes(all[k].string) :
              k \in { j \in DOMAIN all : NOQA_FILE_match(all[j].string) } }

\* The two passes the other way round: noqa comments registered first.
LocalPasses_NoqaFirst(ci, lm, empty) ==
    LintPass(ci.comments_on_own_line, 1, lm, NoqaPass(ci.comments, 1, lm, empty))

\* The order of the two line-scoped passes.
LocalPasses(ci, lm, empty) ==
    NoqaPass(ci.comments, 1, lm, LintPass(ci.comments_on_own_line, 1, lm, empty))

\* IgnoreInfo.compute(comment_info=..., line_mapping_info=...)
IgnoreInfo_compute(ci, lm) ==
    LET empty == [suppression_comments |-> <<>>,
                  by_line |-> [l \in DOMAIN lm.physical_to_logical |-> <<>>]]
        local == LocalPasses(ci, lm, empty)
    IN [suppression_comments |-> local.suppression_comments,
        by_line |-> local.by_line,
        global_ignore_info |-> GlobalIgnoreInfo(ci.comments)]

\* A comment that takes a report only while it has silenced none.
Comment_should_ignore_OnlyUnused(c, report) ==
    c.used_by = {} /\ (c.all \/ report.code \in c.codes)

\* SuppressionComment.should_ignore_report(report)
Comment_should_ignore(c, report) == c.all \/ report.code \in c.codes

\* Usage tracking that records nothing.
mark_used_by_Nothing(c, report) == c

\* SuppressionComment.mark_used_by(report)
mark_used_by(c, report) == [c EXCEPT !.used_by = @ \cup {report}]

RECURSIVE FirstMatch(_, _, _, _)
\* The first comment of the list that takes the report; 0: none does.
FirstMatch(cs, list, k, report) ==
    IF k > Len(list) THEN 0
    ELSE IF Comment_should_ignore(cs[list[k]], report) THEN list[k]
    ELSE FirstMatch(cs, list, k + 1, report)

\* Whether the file-wide codes settle the report before any line is looked up.
GloballyIgnored(global, report) == report.code \in global

\* The lookup with the per-line comments consulted before the file-wide codes.
should_ignore_report_LocalFirst(cs, by_line, global, lm, report) ==
    LET normalized_line == lm.physical_to_logical[report.line]
        hit == FirstMatch(cs, by_line[normalized_line], 1, report)
    IN IF hit # 0
       THEN [ignored |-> TRUE,
             comments |-> [cs EXCEPT ![hit] = mark_used_by(cs[hit], report)]]
       ELSE [ignored |-> GloballyIgnored(global, report), comments |-> cs]

\* IgnoreInfo.should_ignore_report(report): the answer and the comments after.
should_ignore_report(cs, by_line, global, lm, report) ==
    IF GloballyIgnored(global, report) THEN [ignored |-> TRUE, comments |-> cs]
    ELSE LET normalized_line == lm.physical_to_logical[report.line]
             hit == FirstMatch(cs, by_line[normalized_line], 1, report)
         IN IF hit = 0 THEN [ignored |-> FALSE, comments |-> cs]
            ELSE [ignored |-> TRUE,
                  comments |-> [cs EXCEPT ![hit] = mark_used_by(cs[hit], report)]]

\* The comments the audit reads: ignore_info.suppression_comments.
suppression_comments(cs) == DOMAIN cs

\* The unused-comment audit: [c for c in suppression_comments if not c.used_by]
unused_comments(cs) == { n \in suppression_comments(cs) : cs[n].used_by = {} }

\* ------------------------------------------------------------ lint reports
\* Columns a report may carry.
Columns == {0, 1}

ReportClasses == {"BaseLintRuleReport", "AstLintRuleReport", "CstLintRuleReport"}

NoReport ==
    [cls |-> "none", line |-> 0, column |-> 0, code |-> "none",
     replacement_node |-> "None", cached_patch |-> "None"]

\* BaseLintRuleReport.__init__ and the two subclasses': the fields kept.  Only a
\* CstLintRuleReport holds a replacement node and a patch cache.
NewReport(cls, line, column, code, replacement) ==
    [cls |-> cls, line |-> line, column |-> column, code |-> code,
     replacement_node |-> IF cls = "CstLintRuleReport" THEN replacement ELSE "None",
     cached_patch |-> "None"]

\* A reduction that CstLintRuleReport overrides to return its fields.
Report_reduce_CstOverrides(r) ==
    IF r.cls = "CstLintRuleReport"
    THEN [raises |-> "none", value |-> << r.line, r.column, r.code >>]
    ELSE [raises |-> "PicklingError", value |-> <<>>]

\* BaseLintRuleReport.__reduce__, inherited unchanged by both subclasses: it
\* raises and returns nothing.
Report_reduce(r) == [raises |-> "PicklingError", value |-> <<>>]

\* pickle.dumps(report): the reduction is asked of the object; what it raises
\* ends the attempt, what it returns is serialized.
pickle_dumps(r) ==
    LET red == Report_reduce(r) IN
    IF red.raises # "none" THEN [outcome |-> red.raises, data |-> <<>>]
    ELSE [outcome |-> "bytes", data |-> red.value]

\* The patch property: None on the base class and with no replacement node;
\* otherwise computed once and cached.
Report_patch(r) ==
    IF r.cls # "CstLintRuleReport" \/ r.replacement_node = "None" THEN r
    ELSE IF r.cached_patch = "None" THEN [r EXCEPT !.cached_patch = "LintPatch"]
    ELSE r

\* ------------------------------------------------------------ state machine
VARIABLES
    tokens,              \* the token stream of the file
    pos,                 \* tokens the line mapper has consumed
    line_mapping,        \* LineMappingInfo (the mapper's state while it runs)
    comments,            \* the SuppressionComment objects, used_by included
    by_line,             \* local_suppression_comments_by_line
    global_ignore_info,  \* the file-wide codes
    log,                 \* the reports resolved so far, with what each call did
    report,              \* the report object handed to pickle
    pickled,             \* what the last pickling attempt gave
    last_op              \* the operation that made this state

vars == << tokens, pos, line_mapping, comments, by_line, global_ignore_info,
           log, report, pickled, last_op >>

NotPickled == [outcome |-> "none", data |-> <<>>, before |-> NoReport]

\* The file's analysis is set up: tokens read, line mapping and index built.
Init ==
    \E src \in Sources :
       LET toks == Tokenize(src)
           lm   == LineMappingInfo_compute(toks)
           ii   == IgnoreInfo_compute(CommentInfo_compute(toks), lm)
       IN /\ tokens = toks
          /\ pos = Len(toks)
          /\ line_mapping = lm
          /\ comments = ii.suppression_comments
          /\ by_line = ii.by_line
          /\ global_ignore_info = ii.global_ignore_info
          /\ log = <<>>
          /\ report = NoReport
          /\ pickled = NotPickled
          /\ last_op = "compute"

\* ignore_info.should_ignore_report(CstLintRuleReport(line=line, code=code, ...))
ShouldIgnoreReport(line, code) ==
    /\ Len(log) < MaxReports
    /\ line \in DOMAIN line_mapping.physical_to_logical
    /\ LET rep == [line |-> line, code |-> code, id |-> Len(log) + 1]
           out == should_ignore_report(comments, by_line, global_ignore_info,
                                       line_mapping, rep)
       IN /\ comments' = out.comments
          /\ log' = Append(log,
                      [report  |-> rep,
                       ignored |-> out.ignored,
                       changed |-> { n \in DOMAIN comments :
                                       out.comments[n].used_by # comments[n].used_by }])
    /\ last_op' = "should_ignore_report"
    /\ UNCHANGED << tokens, pos, line_mapping, by_line, global_ignore_info,
                    report, pickled >>

Next == \E line \in 1..(MaxLines + 1), code \in Codes : ShouldIgnoreReport(line, code)

Spec == Init /\ [][Next]_vars

\* --------------------------------------------------- the mapper, step by step
\* Any token stream, an unterminated one included, before the mapper starts.
InitMapper ==
    \E src \in AllSources :
       /\ tokens = Tokenize(src)
       /\ pos = 0
       /\ line_mapping = LineMappingStart
       /\ comments = <<>>
       /\ by_line = <<>>
       /\ global_ignore_info = {}
       /\ log = <<>>
       /\ report = NoReport
       /\ pickled = NotPickled
       /\ last_op = "none"

\* One turn of the loop over the tokens.
MapToken ==
    /\ line_mapping.status = "running"
    /\ pos < Len(tokens)
    /\ line_mapping' = LineMappingStep(line_mapping, tokens[pos + 1])
    /\ pos' = pos + 1
    /\ last_op' = "map_token"
    /\ UNCHANGED << tokens, comments, by_line, global_ignore_info, log, report, pickled >>

\* The loop is over: the mapping is returned.
MapEnd ==
    /\ line_mapping.status = "running"
    /\ pos = Len(tokens)
    /\ line_mapping' = LineMappingFinish(line_mapping)
    /\ last_op' = "map_end"
    /\ UNCHANGED << tokens, pos, comments, by_line, global_ignore_info, log, report, pickled >>

NextMapper == MapToken \/ MapEnd

SpecMapper == InitMapper /\ [][NextMapper]_vars

\* ------------------------------------------------------- pickling a report
InitPickle ==
    \E cls \in ReportClasses, line \in 1..(MaxLines + 1), column \in Columns,
       code \in Codes, replacement \in {"None", "node"} :
       /\ report = NewReport(cls, line, column, code, replacement)
       /\ pickled = NotPickled
       /\ tokens = <<>>
       /\ pos = 0
       /\ line_mapping = LineMappingStart
       /\ comments = <<>>
       /\ by_line = <<>>
       /\ global_ignore_info = {}
       /\ log = <<>>
       /\ last_op = "none"

\* pickle.dumps(report), or a multiprocessing worker returning the report.
Pickle ==
    /\ LET d == pickle_dumps(report)
       IN pickled' = [outcome |-> d.outcome, data |-> d.data, before |-> report]
    /\ last_op' = "pickle"
    /\ UNCHANGED << report, tokens, pos, line_mapping, comments, by_line,
                    global_ignore_info, log >>

\* report.patch
Patch ==
    /\ report' = Report_patch(report)
    /\ last_op' = "patch"
    /\ UNCHANGED << pickled, tokens, pos, line_mapping, comments, by_line,
                    global_ignore_info, log >>

NextPickle == Pickle \/ Patch

SpecPickle == InitPickle /\ [][NextPickle]_vars

\* ------------------------------------------------- what the tokens say
\* The definitions below read the token stream directly, not the index.
Lines == 1..LastLine(tokens)

Min(S) == CHOOSE x \in S : \A y \in S : x <= y

Max(S) == CHOOSE x \in S : \A y \in S : x >= y

Range(f) == { f[i] : i \in DOMAIN f }

HasNewlineTok(l) ==
    \E i \in DOMAIN tokens : tokens[i].type \in {"NL", "NEWLINE"} /\ tokens[i].start = l

\* The first line of the run of physical lines, up to l, that no newline
\* token separates: lines joined by a backslash or by a multi-line string.
FirstOfGroup(l) == Max({ k \in 1..l : k = 1 \/ HasNewlineTok(k - 1) })

\* The physical lines of the logical line that holds line l.
JoinedGroup(l) == { k \in Lines : FirstOfGroup(k) = FirstOfGroup(l) }

\* The first later line that holds more than comments and newlines (the end
\* marker counts).
NextNonEmpty(l) ==
    Min({ k \in Lines : k > l /\ \E i \in DOMAIN tokens :
            tokens[i].type \notin {"COMMENT", "NL", "NEWLINE"} /\ tokens[i].start = k })

\* The last line of the statement that begins on line e: where its NEWLINE
\* token is, brackets closed (the end marker is its own last line).
StatementEnd(e) ==
    Min({ k \in Lines : k >= e /\ \E i \in DOMAIN tokens :
            tokens[i].type \in {"NEWLINE", "ENDMARKER"} /\ tokens[i].start = k })

\* The comment tokens with one of the given directives.
CommentToks(directives) ==
    { tokens[i] : i \in { j \in DOMAIN tokens :
                            /\ tokens[j].type = "COMMENT"
                            /\ tokens[j].string.directive \in directives } }

NoqaToks == CommentToks({"noqa"})

NoqaFileToks == CommentToks({"noqa-file"})

\* lint-ignore / lint-fixme comments that list codes.
LintToks == { t \in CommentToks({"lint-ignore", "lint-fixme"}) : t.string.codes # <<>> }

Listed(t) == { t.string.codes[i] : i \in DOMAIN t.string.codes }

\* The comment objects built from the comment token t.
ObjectsOf(t) == { n \in DOMAIN comments : t.start \in comments[n].lines }

\* Comment n is consulted for line l and takes the code.
Suppresses(n, l, code) ==
    /\ n \in Range(by_line[line_mapping.physical_to_logical[l]])
    /\ (comments[n].all \/ code \in comments[n].codes)

\* What should_ignore_report answers for (l, code) in this state.
WouldIgnore(l, code) ==
    should_ignore_report(comments, by_line, global_ignore_info, line_mapping,
                         [line |-> l, code |-> code, id |-> 0]).ignored

Queried(i) == log[i].report

FileHasOnly(toks) ==
    \A i \in DOMAIN tokens : tokens[i].type = "COMMENT" => tokens[i] \in toks

\* ================================================================== claims

\* ---- C1
\* The line-scoped comments registered at the report's line that take its code.
MatchingAt(rep) == { n \in DOMAIN comments : Suppresses(n, rep.line, rep.code) }

\* lint-ignore / lint-fixme before noqa, then the earlier source position.
Precedes(n, m) ==
    LET class(k) == IF comments[k].kind = "noqa" THEN 1 ELSE 0 IN
    \/ class(n) < class(m)
    \/ class(n) = class(m) /\ Min(comments[n].lines) < Min(comments[m].lines)

FirstOf(M) == CHOOSE n \in M : \A m \in M \ {n} : Precedes(n, m)

CreditedFirst(e) ==
    LET M == MatchingAt(e.report) IN
    /\ e.changed = { FirstOf(M) }
    /\ e.report \in comments[FirstOf(M)].used_by
    /\ \A m \in M \ { FirstOf(M) } : e.report \notin comments[m].used_by

LintCovered(s) == (s..NextNonEmpty(s)) \cup JoinedGroup(NextNonEmpty(s))

\* The physical lines of the statement after the comment, brackets joined.
NextStatement(s) == NextNonEmpty(s)..StatementEnd(NextNonEmpty(s))

\* C2 as stated: a lint-ignore / lint-fixme comment suppresses its codes on
\* exactly the physical lines of the next statement (lines joined by an open
\* bracket or a multi-line string included), not on its own line.
C2_AsStated ==
    \A t \in LintToks : \A n \in ObjectsOf(t) : \A l \in Lines, code \in Listed(t) :
       Suppresses(n, l, code) <=> l \in NextStatement(t.start)

\* C2, amended: a lint-ignore / lint-fixme comment suppresses its listed codes
\* on exactly these physical lines: every line from the comment's own first
\* line through the first line of the next non-empty logical line, and the
\* lines joined to that line by a backslash continuation or a multi-line
\* string.  Lines that only an open bracket joins to it are not covered, nor is
\* any later statement; there should_ignore_report is true for the code only
\* if something else suppresses it.
C2_LintCoversOwnLinesThroughNextLogicalLine ==
    /\ \A t \in LintToks :
          /\ ObjectsOf(t) # {}
          /\ \A n \in ObjectsOf(t) :
                LET covered == LintCovered(Min(comments[n].lines)) IN
                \A l \in Lines, code \in Codes :
                   /\ Suppresses(n, l, code) <=> (l \in covered /\ code \in Listed(t))
                   /\ Suppresses(n, l, code) => WouldIgnore(l, code)
    /\ FileHasOnly(LintToks) =>
          LET covered == [u \in LintToks |-> LintCovered(u.start)] IN
          \A l \in Lines, code \in Codes :
             WouldIgnore(l, code) =>
                \E u \in LintToks : l \in covered[u] /\ code \in Listed(u)

\* A lint-ignore on line 1 before a call that an open bracket spreads over
\* lines 2 and 3: line 2 was found suppressed, line 3 was not.
C2_Witness ==
    /\ Len(log) = 2
    /\ \E t \in LintToks :
          /\ t.start = 1 /\ FileHasOnly({t})
          /\ NextStatement(1) = {2, 3}
          /\ LintCovered(1) = {1, 2}
    /\ Queried(1).line = 2 /\ Queried(1).code = "A" /\ log[1].ignored
    /\ Queried(2).line = 3 /\ Queried(2).code = "A" /\ ~log[2].ignored

\* ---- C3
\* The claim's condition for the noqa comment t, line l and code; group is the
\* set of physical lines of the logical line that holds t.
NoqaCondition(t, group, l, code) ==
    /\ l \in group
    /\ (t.string.codes = <<>> \/ code \in Listed(t))

\* C3: a noqa comment suppresses (line, code) if and only if line is a
\* physical line of the logical line holding the comment (the lines a
\* backslash or a multi-line string joins) and the comment is bare or lists
\* the code; what follows a second colon is a message, not a code.  Where the
\* condition holds should_ignore_report answers true, and in a file with no
\* other kind of directive it answers true only there.
C3_NoqaCoversItsLogicalLine ==
    LET group == [t \in NoqaToks |-> JoinedGroup(t.start)] IN
    /\ \A t \in NoqaToks :
          /\ Cardinality(ObjectsOf(t)) = 1
          /\ \A n \in ObjectsOf(t) : \A l \in Lines, code \in Codes :
                Suppresses(n, l, code) <=> NoqaCondition(t, group[t], l, code)
          /\ \A l \in Lines, code \in Codes :
                NoqaCondition(t, group[t], l, code) => WouldIgnore(l, code)
    /\ FileHasOnly(NoqaToks) =>
          \A l \in Lines, code \in Codes :
             WouldIgnore(l, code) =>
                \E t \in NoqaToks : NoqaCondition(t, group[t], l, code)

\* A noqa listing B, with "A" as its message, trailing a two-line
\* backslash-continued call: B found suppressed on line 1, A not.
C3_Witness ==
    /\ Len(log) = 2
    /\ \E t \in NoqaToks :
          /\ t.start = 2 /\ JoinedGroup(2) = {1, 2} /\ FileHasOnly({t})
          /\ t.string.codes = <<"B">> /\ t.string.rest = <<"A">>
    /\ Queried(1).line = 1 /\ Queried(1).code = "B" /\ log[1].ignored
    /\ Queried(2).line = 1 /\ Queried(2).code = "A" /\ ~log[2].ignored

\* ---- C4
\* The codes of the noqa-file comments that carry both codes and a reason.
CompleteFileCodes ==
    UNION { Listed(t) : t \in { u \in NoqaFileToks : u.string.codes # <<>> /\ u.string.rest # <<>> } }

\* C4: a noqa-file comment suppresses a code if and only if it carries a code
\* list holding the code and a reason; then should_ignore_report is true for
\* the code on every physical line, 1 through the end marker, the directive's
\* own line included; a noqa-file with no codes, or with no reason,
\* suppresses nothing on any line.
C4_NoqaFileNeedsCodesAndReason ==
    /\ global_ignore_info = CompleteFileCodes
    /\ \A code \in CompleteFileCodes : \A l \in Lines : WouldIgnore(l, code)
    /\ \A t \in NoqaFileToks : ObjectsOf(t) = {}
    /\ \A i \in DOMAIN log :
          Queried(i).code \in CompleteFileCodes => log[i].ignored
    /\ FileHasOnly(NoqaFileToks) =>
          \A l \in Lines, code \in Codes :
             WouldIgnore(l, code) <=> code \in CompleteFileCodes

\* A complete noqa-file on line 1, a reasonless one on line 2: A was found
\* suppressed on the directive's own line and B was not.
C4_Witness ==
    /\ Len(log) = 2
    /\ FileHasOnly(NoqaFileToks)
    /\ \E t, u \in NoqaFileToks :
          /\ t.start = 1 /\ t.string.codes = <<"A">> /\ t.string.rest # <<>>
          /\ u.start = 2 /\ u.string.rest = <<>>
    /\ Queried(1).line = 1 /\ Queried(1).code = "A" /\ log[1].ignored
    /\ Queried(2).line = 1 /\ Queried(2).code = "B" /\ ~log[2].ignored

\* ---- C5
ReasonlessLintToks == { t \in LintToks : t.string.rest = <<>> }

\* C5 as stated: a lint-ignore / lint-fixme comment with codes and no reason is
\* inert; should_ignore_report is false for its codes on every line it would
\* otherwise cover.
C5_AsStated ==
    FileHasOnly(ReasonlessLintToks) =>
       \A l \in Lines, code \in Codes : ~WouldIgnore(l, code)

\* C5, amended: a lint-ignore / lint-fixme comment with codes and no reason
\* text is not inert.  It is registered like one with a reason, and
\* should_ignore_report is true for its codes on every line from the
\* comment's own line through the next non-empty logical line; when the
\* comment is the last line of the file those are its own line and the end
\* marker's.
C5_ReasonlessLintStillSuppresses ==
    \A t \in ReasonlessLintToks :
       /\ ObjectsOf(t) # {}
       /\ \A l \in LintCovered(t.start), code \in Listed(t) : WouldIgnore(l, code)
       /\ (t.start = LastLine(tokens) - 1) => (LintCovered(t.start) = {t.start, t.start + 1})

\* A reasonless lint-ignore alone on the last line of a file: its code was
\* found suppressed on that line and on the end marker's.
C5_Witness ==
    /\ Len(log) = 2
    /\ LastLine(tokens) = 2
    /\ \E t \in ReasonlessLintToks : t.start = 1 /\ FileHasOnly({t})
    /\ Queried(1).line = 1 /\ Queried(1).code = "A" /\ log[1].ignored
    /\ Queried(2).line = 2 /\ Queried(2).code = "A" /\ log[2].ignored

\* ---- C6
\* The LogicalLines of the mapping, each as its set of physical lines.
LogicalLineSets ==
    LET ptl == line_mapping.physical_to_logical IN
    { { l \in DOMAIN ptl : ptl[l] = id } : id \in Range(ptl) }

\* The last line a newline token sits on (0: there is none).
LastNewlineLine ==
    Max({0} \cup { tokens[i].start :
                     i \in { j \in DOMAIN tokens : tokens[j].type \in {"NL", "NEWLINE"} } })

C7_UnusedAreTheCommentsThatSilencedNothing ==
    LET U == unused_comments(comments) IN
    /\ \A n \in DOMAIN comments :
          /\ comments[n].kind \in {"noqa", "lint-ignore", "lint-fixme"}
          /\ (n \in U) <=> (comments[n].used_by = {})
          /\ (\A i \in DOMAIN log : ~Suppresses(n, Queried(i).line, Queried(i).code))
                => n \in U
          /\ n \notin U =>
                \E i \in DOMAIN log :
                   /\ log[i].ignored /\ Queried(i) \in comments[n].used_by
                   /\ Suppresses(n, Queried(i).line, Queried(i).code)
    /\ \A i \in DOMAIN log :
          ( /\ Queried(i).code \notin global_ignore_info
            /\ MatchingAt(Queried(i)) # {} )
          => FirstOf(MatchingAt(Queried(i))) \notin U
    /\ \A t \in NoqaToks \cup LintToks : ObjectsOf(t) # {}
    /\ \A t \in NoqaFileToks : \A n \in U : t.start \notin comments[n].lines

\* Two reports resolved in a file that also holds a noqa-file comment: one
\* comment silenced a report and is not returned, another matched nothing and
\* is.
C7_Witness ==
    /\ Len(log) = 2
    /\ NoqaFileToks # {}
    /\ \E n, m \in DOMAIN comments :
          /\ n \notin unused_comments(comments)
          /\ m \in unused_comments(comments)
          /\ \A i \in DOMAIN log : ~Suppresses(m, Queried(i).line, Queried(i).code)

C9_PicklingAlwaysRaises ==
    /\ pickled.outcome \in {"none", "PicklingError"}
    /\ pickled.data = <<>>
    /\ last_op = "pickle" => (pickled.outcome = "PicklingError" /\ report = pickled.before)

\* A CstLintRuleReport whose patch is already cached was handed to pickle.
C9_Witness ==
    /\ last_op = "pickle"
    /\ report.cls = "CstLintRuleReport"
    /\ report.cached_patch = "LintPatch"
    /\ pickled.outcome = "PicklingError"

\* ---- C10
\* The index as built, before any report was resolved.
FreshComments == [n \in DOMAIN comments |-> [comments[n] EXCEPT !.used_by = {}]]

FreshOutcome(rep) ==
    should_ignore_report(FreshComments, by_line, global_ignore_info, line_mapping, rep)

\* The comment a report is attributed to when it is the first one resolved.
FreshCredit(rep) ==
    { n \in DOMAIN comments : FreshOutcome(rep).comments[n].used_by # {} }

\* C10: whatever was resolved before it, each report gets the answer and the
\* attribution it gets on the freshly built index, so every order of the same
\* reports gives each the same result and the same comment, and the unused
\* comments are fixed by the set of reports alone.
C10_QueryOrderDoesNotMatter ==
    /\ \A i \in DOMAIN log :
          /\ log[i].ignored = FreshOutcome(Queried(i)).ignored
          /\ log[i].changed = FreshCredit(Queried(i))
    /\ \A i, j \in DOMAIN log :
          (Queried(i).line = Queried(j).line /\ Queried(i).code = Queried(j).code)
             => (log[i].ignored = log[j].ignored /\ log[i].changed = log[j].changed)
    /\ unused_comments(comments) =
          DOMAIN comments \ UNION { FreshCredit(Queried(i)) : i \in DOMAIN log }

\* Two reports on different lines of one statement, the later line first, both
\* attributed to the same comment.
C10_Witness ==
    /\ Len(log) = 2
    /\ Queried(1).line > Queried(2).line
    /\ log[1].ignored /\ log[2].ignored
    /\ log[1].changed # {}
    /\ log[1].changed = log[2].changed

====
